---- MODULE Spec2Model ----
(***************************************************************************)
(* The paper listing pipeline of knowpro-backend:                          *)
(* routes/paper_query_utils.py (get_papers, include_stats and their        *)
(* helpers, the request parser and the response fields) and                *)
(* routes/library.py (the library listing), over the Mongo collections     *)
(* they read; and the comment handlers of src/routes/comments.py           *)
(* (NewCommentResource, CommentResource) over the Comment table.           *)
(*                                                                         *)
(* Strings that the code takes apart (the `categories` argument and the    *)
(* tag terms it is compared with) are sequences of one-character strings;  *)
(* every other string is atomic.  Timestamps are whole days.               *)
(***************************************************************************)
EXTENDS Integers, Sequences, FiniteSets, TLC

VARIABLES
    db_papers,      \* the papers collection, in the store's natural order
    db_users,       \* the users collection: email -> user document
    db_groups,      \* the groups collection: group id -> group document
    db_comments,    \* the comments collection (Mongo), a set of documents
    pc,             \* "idle" or "responded": where the current request is
    request,        \* the request being served (arguments, caller, clock)
    response,       \* what get_papers returned for it
    marshalled,     \* the body marshal_with made of it
    comment_table,  \* the rows of models.Comment: comment id -> row
    next_comment_id,\* the id the next inserted Comment row gets
    emitted,        \* the socket messages emitted while serving the request
    paper_table,    \* the rows of models.Paper: paper id -> row
    cache,          \* the disk cache of metadata_utils: file hash -> metadata
    run             \* the run of extract_paper_metadata: position and locals

vars ==
    <<db_papers, db_users, db_groups, db_comments, pc, request, response,
      marshalled, comment_table, next_comment_id, emitted, paper_table, cache,
      run>>

\* The Mongo collections, the Comment table and the metadata state.
listing_vars == <<db_papers, db_users, db_groups, db_comments>>
comment_vars == <<comment_table, next_comment_id>>
metadata_vars == <<paper_table, cache, run>>

None == "None"
\* None where a string held as a sequence of characters is expected: no
\* sequence of one-character strings equals it.
NoneSeq == <<None>>

(***************************************************************************)
(* Bounds of the model.                                                    *)
(***************************************************************************)
\* Largest number of papers in the store.
MaxPapers == 3
\* Largest page_num a request carries.
MaxPage == 2
\* The page_size argument get_papers is called with (its default is 20; the
\* function is parametric in it and the model calls it with a small page so
\* that a store of MaxPapers papers spans several pages).
PageSize == 2
\* The clock reading datetime.datetime.now() of the request, in days.
Now == 400
\* Largest number of Comment rows ever inserted.
MaxComments == 2

(***************************************************************************)
(* Program constants.                                                      *)
(***************************************************************************)
SORT_DICT ==
    [tweets |-> "twtr_sum", date |-> "time_published", score |-> "score",
     bookmarks |-> "total_bookmarks"]

AGE_DICT ==
    ("day" :> 1) @@ ("3days" :> 3) @@ ("week" :> 7) @@ ("month" :> 30)
        @@ ("year" :> 365) @@ ("all" :> (0 - 1))

(***************************************************************************)
(* The documents the store is drawn from.  Paper i has the i-th entry      *)
(* (cyclically) of each attribute table.                                   *)
(***************************************************************************)
Cyc(t, i) == t[((i - 1) % Len(t)) + 1]

PaperAges == <<0, 2, 10, 400, 40>>
PaperTweets == <<0, 7, 7, 3, 1>>
PaperBookmarks == <<5, 1, 3, 3, 0>>
PaperTags == << {<<"a">>}, {<<"b">>, <<"c">>}, {<<"c">>}, {}, {<<"a">>, <<"b">>} >>
PaperAuthors == << {"A"}, {"A", "B"}, {"B"}, {"A"}, {"B"} >>
PaperWords == << <<"x">>, <<>>, <<"x", "x">>, <<"y">>, <<"x">> >>

\* Tweet references: the first has no 'replies' key.
Tweet1 == [tname |-> "ann", tid |-> "11", likes |-> 10, rt |-> 2]
Tweet2 == [tname |-> "bob", tid |-> "12", likes |-> 10, rt |-> 2, replies |-> 1]
Tweet3 == [tname |-> "ann", tid |-> "13", likes |-> 0, rt |-> 1, replies |-> 3]
PaperTweetRefs ==
    << <<Tweet1, Tweet2>>, <<>>, <<>>, <<Tweet3, Tweet2, Tweet1>>, <<Tweet2>> >>
\* Whether the document has a twtr_links key at all.
PaperHasTweetRefs == <<TRUE, FALSE, TRUE, TRUE, TRUE>>

PaperDoc(i) ==
    LET doc == [_id             |-> i,
                time_published  |-> Now - Cyc(PaperAges, i),
                twtr_sum        |-> Cyc(PaperTweets, i),
                total_bookmarks |-> Cyc(PaperBookmarks, i),
                tags            |-> {[term |-> t] : t \in Cyc(PaperTags, i)},
                authors         |-> {[name |-> a] : a \in Cyc(PaperAuthors, i)},
                words           |-> Cyc(PaperWords, i)]
    IN IF Cyc(PaperHasTweetRefs, i)
       THEN ("twtr_links" :> Cyc(PaperTweetRefs, i)) @@ doc
       ELSE doc

\* The stores: papers 1..n in ascending or in descending natural order.
Stores ==
    UNION {{[i \in 1..n |-> PaperDoc(i)], [i \in 1..n |-> PaperDoc(n + 1 - i)]}
           : n \in 0..MaxPapers}

User1 == "u1"
User2 == "u2"
Group1 == "g1"
Libraries == {{}, {1}, {2, 3}}
GroupPaperSets == {{}, {1, 2}}

Comments ==
    {[id |-> 1, pid |-> 1, visibility |-> [type |-> "public"]],
     [id |-> 2, pid |-> 1, visibility |-> [type |-> "private"]],
     [id |-> 3, pid |-> 1, visibility |-> [type |-> "anonymous"]],
     [id |-> 4, pid |-> 2, visibility |-> [type |-> "group"]]}

(***************************************************************************)
(* Request arguments (query_parser) and callers.                           *)
(***************************************************************************)
CategoriesArgs == {NoneSeq, <<>>, <<"a">>, <<"a", ";", "b">>, <<";">>}

query_parser ==
    [q          : {None, "x"},
     author     : {None, "A"},
     page_num   : 1..MaxPage,
     sort       : {None} \cup DOMAIN SORT_DICT,
     age        : DOMAIN AGE_DICT,
     categories : CategoriesArgs,
     group      : {None, Group1}]

\* Requests with none of the optional filters.
PlainArgs ==
    {a \in query_parser :
        /\ a.q = None /\ a.author = None /\ a.categories = NoneSeq
        /\ a.sort = None /\ a.age = "week"}

\* Requests as they arrive, before parse_args: sort and age may be absent,
\* a valid choice or not one of the choices.
UncheckedArgs ==
    {[a EXCEPT !.sort = s, !.age = g] :
        a \in PlainArgs, s \in {None, "date", "votes"},
        g \in {None, "week", "decade"}}

\* A collection that is unreachable while a request is served (None: all
\* are up).
Outages == {None, "db_comments", "db_users", "db_groups"}

\* <<arguments, outage>>: every well-formed request with the stores up,
\* the unchecked ones, and the plain requests during each outage.
Requests ==
    ((query_parser \cup UncheckedArgs) \X {None})
        \cup ({a \in query_parser :
                  /\ a.q = None /\ a.author = None /\ a.categories = NoneSeq
                  /\ a.sort = None /\ a.age \in {"week", "all"}}
              \X (Outages \ {None}))

\* <<current_user, library>>: the papers listing is open to anonymous
\* callers; Library.get is behind jwt_required and passes library=True.
Callers ==
    {<<None, FALSE>>} \cup {<<u, library>> : u \in {User1, User2}, library \in BOOLEAN}

(***************************************************************************)
(* Python helpers.                                                         *)
(***************************************************************************)
\* Truth value of an Optional[str] argument: an atomic string, and a string
\* held as a sequence of characters.
Truthy(s) == s # None /\ s # ""

TruthySeq(s) == s # NoneSeq /\ s # <<>>

\* str.split(sep) on a sequence of characters.
RECURSIVE split(_, _)
split(s, sep) ==
    IF \A i \in 1..Len(s) : s[i] # sep
    THEN <<s>>
    ELSE LET i == CHOOSE k \in 1..Len(s) :
                      s[k] = sep /\ \A j \in 1..(k - 1) : s[j] # sep
         IN <<SubSeq(s, 1, i - 1)>> \o split(SubSeq(s, i + 1, Len(s)), sep)

Range(s) == {s[i] : i \in 1..Len(s)}

Min(a, b) == IF a < b THEN a ELSE b

\* dict.get(key, default)
dict_get(obj, key, default) == IF key \in DOMAIN obj THEN obj[key] ELSE default

(***************************************************************************)
(* Collaborators that live outside routes/paper_query_utils.py.            *)
(***************************************************************************)
\* user_utils.find_by_email: the user document of an email.
find_by_email(user_email) == db_users[user_email]

\* user_utils.get_user_library: the saved-paper ids of the caller, the empty
\* list for an anonymous caller.
get_user_library(current_user) ==
    IF current_user # None /\ current_user \in DOMAIN db_users
    THEN db_users[current_user].library
    ELSE {}

\* group_utils.get_group: the group document of an id.
get_group(group_id) == db_groups[group_id]

\* The group_papers collection the $lookup stage joins with.
db_group_papers ==
    UNION {{[group_id |-> g, paper_id |-> i] : i \in db_groups[g].papers}
           : g \in DOMAIN db_groups}

(***************************************************************************)
(* The Mongo query operators get_papers uses.                              *)
(***************************************************************************)
\* The textScore of a document for a $text search: the occurrences of the
\* searched word in the indexed text; 0 means the document does not match.
textScore(q, paper) == Cardinality({i \in 1..Len(paper.words) : paper.words[i] = q})

\* Whether a document satisfies a filter document (a function from the keys
\* that are set to their conditions).
Matches(paper, filters) ==
    /\ "authors.name" \in DOMAIN filters =>
           \E a \in paper.authors : a.name = filters["authors.name"]
    /\ "_id" \in DOMAIN filters => paper._id \in filters["_id"]["$in"]
    /\ "time_published" \in DOMAIN filters =>
           paper.time_published > filters["time_published"]["$gt"]
    /\ "tags.term" \in DOMAIN filters =>
           \E t \in paper.tags : t.term \in Range(filters["tags.term"]["$in"])
    /\ "$text" \in DOMAIN filters =>
           textScore(filters["$text"]["$search"], paper) > 0

\* db_papers.find(filters, {'score': {'$meta': 'textScore'}}): the matching
\* documents in natural order, each with its score.
find(filters) ==
    LET matched == SelectSeq(db_papers, LAMBDA p : Matches(p, filters))
    IN [i \in 1..Len(matched) |->
           ("score" :> textScore(filters["$text"]["$search"], matched[i]))
               @@ matched[i]]

\* db_papers.aggregate([$match, $lookup, $facet]): one result document.  No
\* stage sorts, so the documents keep the natural order.  A $count stage
\* that receives no document emits none.
aggregate(filters, facet) ==
    LET matched == SelectSeq(db_papers, LAMBDA p : Matches(p, filters))
        joined == [i \in 1..Len(matched) |->
                      ("group" :> {g \in db_group_papers :
                                      g.paper_id = matched[i]._id})
                          @@ matched[i]]
        page == SubSeq(joined, facet.papers["$skip"] + 1,
                       Min(Len(joined),
                           facet.papers["$skip"] + facet.papers["$limit"]))
        counted == IF Len(joined) = 0 THEN <<>> ELSE <<[count |-> Len(joined)]>>
    IN <<IF "count" \in DOMAIN facet
         THEN [papers |-> page, count |-> counted]
         ELSE [papers |-> page]>>

(***************************************************************************)
(* routes/paper_query_utils.py                                             *)
(***************************************************************************)
\* sort_papers is defined by the module but its only call, in get_papers,
\* is commented out (line 146).
sort_papers(papers, args) ==
    LET field == IF "sort" \in DOMAIN args THEN args.sort ELSE "date"
    IN IF field \notin DOMAIN SORT_DICT
       THEN "KeyError"
       ELSE SortSeq(papers,
                    LAMBDA a, b : a[SORT_DICT[field]] > b[SORT_DICT[field]])

\* filters[key] = value
SetKey(filters, key, value) == (key :> value) @@ filters

EmptyFilters == [k \in {} |-> {}]

\* lines 100-101
author_filter(filters, author) ==
    IF Truthy(author) THEN SetKey(filters, "authors.name", author) ELSE filters

\* lines 103-105
library_filter(filters, library, current_user) ==
    IF library
    THEN SetKey(filters, "_id", [x \in {"$in"} |-> get_user_library(current_user)])
    ELSE filters

\* age_filter without its window: the filter is never set.
age_filter_unset(filters, age, dnow_utc) == filters

\* lines 107-110
age_filter(filters, age, dnow_utc) ==
    IF age # "all"
    THEN SetKey(filters, "time_published",
                [x \in {"$gt"} |-> dnow_utc - AGE_DICT[age]])
    ELSE filters

\* categories_filter that keeps the first element of the list only.
categories_filter_first(filters, categories) ==
    IF TruthySeq(categories)
    THEN SetKey(filters, "tags.term",
                [x \in {"$in"} |-> <<split(categories, ";")[1]>>])
    ELSE filters

\* lines 112-113
categories_filter(filters, categories) ==
    IF TruthySeq(categories)
    THEN SetKey(filters, "tags.term", [x \in {"$in"} |-> split(categories, ";")])
    ELSE filters

\* group_filter that narrows an "_id" condition already set instead of
\* replacing it.
group_filter_intersect(filters, group_id) ==
    IF Truthy(group_id)
    THEN SetKey(filters, "_id",
                [x \in {"$in"} |->
                    IF "_id" \in DOMAIN filters
                    THEN filters["_id"]["$in"] \cap get_group(group_id).papers
                    ELSE get_group(group_id).papers])
    ELSE filters

\* lines 115-118
group_filter(filters, group_id) ==
    IF Truthy(group_id)
    THEN SetKey(filters, "_id", [x \in {"$in"} |-> get_group(group_id).papers])
    ELSE filters

\* get_comments_count without its $match stage: every comment is counted.
get_comments_count_all ==
    [pid \in {c.pid : c \in db_comments} |->
        Cardinality({c \in db_comments : c.pid = pid})]

\* lines 158-178
get_comments_count ==
    LET counted == {c \in db_comments : c.visibility.type \in {"public", "anonymous"}}
    IN [pid \in {c.pid : c \in counted} |->
           Cardinality({c \in counted : c.pid = pid})]

get_paper_groups(user_email, paper_ids) ==
    LET user == find_by_email(user_email)
    IN {g \in DOMAIN db_groups :
           /\ g \in user.groups
           /\ db_groups[g].papers \cap paper_ids # {}
           /\ user._id \in db_groups[g].users}

\* include_stats that looks the paper id up in the comment counts instead
\* of the library.
include_stats_comments(papers, library, user) ==
    LET papers_comments == get_comments_count
        lib == IF library = None THEN get_user_library(user) ELSE library
    IN [i \in 1..Len(papers) |->
           [k \in {"comments_count", "saved_in_library"} |->
               IF k = "comments_count"
               THEN IF papers[i]._id \in DOMAIN papers_comments
                    THEN papers_comments[papers[i]._id]
                    ELSE 0
               ELSE papers[i]._id \in DOMAIN papers_comments]
               @@ papers[i]]

\* include_stats that returns the enriched papers in reverse order.
include_stats_reversed(papers, library, user) ==
    LET papers_comments == get_comments_count
        lib == IF library = None THEN get_user_library(user) ELSE library
    IN [i \in 1..Len(papers) |->
           LET paper == papers[Len(papers) + 1 - i]
           IN [k \in {"comments_count", "saved_in_library"} |->
                  IF k = "comments_count"
                  THEN dict_get(papers_comments, paper._id, 0)
                  ELSE paper._id \in lib]
                  @@ paper]

\* include_stats that adds the count to a comments_count the paper has.
include_stats_accumulating(papers, library, user) ==
    LET papers_comments == get_comments_count
        lib == IF library = None THEN get_user_library(user) ELSE library
    IN [i \in 1..Len(papers) |->
           [k \in {"comments_count", "saved_in_library"} |->
               IF k = "comments_count"
               THEN dict_get(papers[i], "comments_count", 0)
                        + dict_get(papers_comments, papers[i]._id, 0)
               ELSE papers[i]._id \in lib]
               @@ papers[i]]

\* The list include_stats returns.  The groups it looks up (line 198) are
\* not written to the papers.
include_stats(papers, library, user) ==
    LET papers_comments == get_comments_count
        lib == IF library = None THEN get_user_library(user) ELSE library
    IN [i \in 1..Len(papers) |->
           [k \in {"comments_count", "saved_in_library"} |->
               IF k = "comments_count"
               THEN IF papers[i]._id \in DOMAIN papers_comments
                    THEN papers_comments[papers[i]._id]
                    ELSE 0
               ELSE papers[i]._id \in lib]
               @@ papers[i]]

\* An uncaught exception of the handler: the request ends with a 500.
Raise(exception) == [status |-> 500, error |-> exception]

get_papers(args, current_user, library, page_size, dnow_utc) ==
    LET skips == page_size * (args.page_num - 1)
        f1 == author_filter(EmptyFilters, args.author)
        f2 == library_filter(f1, library, current_user)
        f3 == age_filter(f2, args.age, dnow_utc)
        f4 == categories_filter(f3, args.categories)
        filters == group_filter(f4, args.group)
        papers_facet == [x \in {"$skip", "$limit"} |->
                            IF x = "$skip" THEN skips ELSE page_size]
        facet == IF args.page_num = 1
                 THEN [papers |-> papers_facet, count |-> "$count"]
                 ELSE [papers |-> papers_facet]
        results == IF Truthy(args.q)
                   THEN find(SetKey(filters, "$text",
                                    [x \in {"$search"} |-> args.q]))
                   ELSE aggregate(filters, facet)
    IN IF Len(results) = 0
       THEN Raise("IndexError")                  \* list(results)[0]
       ELSE LET first == results[1]
            IN IF "papers" \notin DOMAIN first
               THEN Raise("TypeError")           \* include_stats(None, ...)
               ELSE IF "count" \in DOMAIN first /\ Len(first.count) = 0
               THEN Raise("IndexError")          \* results['count'][0]
               ELSE [status |-> 200,
                     papers |-> include_stats(first.papers, None, current_user),
                     count  |-> IF "count" \in DOMAIN first
                                THEN first.count[1].count
                                ELSE 0 - 1]

\* abort(code): the request ends with that status and no body of papers.
Abort(code) == [status |-> code, error |-> "abort"]

\* query_parser.parse_args() (line 88): an argument with choices that is
\* given and is not one of them ends the request with a 400, the arguments
\* in the order they were added; absent arguments take their defaults.
parse_args(raw) ==
    IF raw.sort # None /\ raw.sort \notin DOMAIN SORT_DICT
    THEN Abort(400)
    ELSE IF raw.age # None /\ raw.age \notin DOMAIN AGE_DICT
    THEN Abort(400)
    ELSE [status |-> 0,
          args |-> [raw EXCEPT !.age = IF raw.age = None THEN "week" ELSE raw.age]]

\* get_papers while a collection is unreachable: the lookup of include_stats
\* that reads it raises, nothing catches the exception, and the request
\* ends with a 500.  The group lookup runs for a signed-in caller only.
get_papers_during(outage, args, current_user, library, page_size, dnow_utc) ==
    LET returned == get_papers(args, current_user, library, page_size, dnow_utc)
    IN IF returned.status = 200
          /\ \/ outage = "db_comments"                         \* line 190
             \/ outage = "db_users"                            \* line 194
             \/ outage = "db_groups" /\ current_user # None    \* line 198
       THEN Raise("ServerSelectionTimeoutError")
       ELSE returned

(***************************************************************************)
(* The response fields (papers_fields, papers_list_fields).                *)
(***************************************************************************)
\* A date in RFC 822 format.
rfc822(t) == [rfc822 |-> t]

\* fields.Raw.output: the attribute's value, None when the key is absent.
Attribute(obj, key) == dict_get(obj, key, None)

\* fields.Integer.output: the integer under the key, the default 0 when
\* there is none.
Integer(obj, key) == dict_get(obj, key, 0)

\* TwitterUrl.format with the link's handle and tweet id exchanged.
TwitterUrl_format_swapped(objs) ==
    [i \in 1..Len(objs) |->
        [link  |-> <<"https://twitter.com/", objs[i].tid, "/status/", objs[i].tname>>,
         name  |-> objs[i].tname,
         score |-> objs[i].likes + 2 * objs[i].rt
                       + 4 * dict_get(objs[i], "replies", 0)]]

\* TwitterUrl.format (lines 34-41).  The link is the concatenation of its
\* four parts, kept as the sequence of the parts.
TwitterUrl_format(objs) ==
    [i \in 1..Len(objs) |->
        [link  |-> <<"https://twitter.com/", objs[i].tname, "/status/", objs[i].tid>>,
         name  |-> objs[i].tname,
         score |-> objs[i].likes + 2 * objs[i].rt
                       + 4 * dict_get(objs[i], "replies", 0)]]

\* marshal(paper, papers_fields).  The model's documents carry no title,
\* summary or code.
marshal_paper(paper) ==
    [_id              |-> paper._id,
     title            |-> Attribute(paper, "title"),
     saved_in_library |-> Attribute(paper, "saved_in_library"),
     authors          |-> paper.authors,
     time_published   |-> rfc822(paper.time_published),
     summary          |-> Attribute(paper, "summary"),
     twtr_score       |-> Integer(paper, "twtr_sum"),
     twtr_links       |-> IF "twtr_links" \in DOMAIN paper
                          THEN TwitterUrl_format(paper.twtr_links)
                          ELSE None,
     bookmarks_count  |-> Integer(paper, "total_bookmarks"),
     comments_count   |-> Integer(paper, "comments_count"),
     github           |-> Attribute(paper, "code"),
     groups           |-> Attribute(paper, "groups")]

\* marshal_with(papers_list_fields) around the handler: the body of a
\* returned value; an exception or abort passes through.
marshal_with(returned) ==
    IF returned.status = 200
    THEN [papers |-> [i \in 1..Len(returned.papers) |->
                         marshal_paper(returned.papers[i])],
          count  |-> Integer(returned, "count")]
    ELSE [message |-> returned.error]

(***************************************************************************)
(* src/routes/comments.py: the tables and the requests.                    *)
(***************************************************************************)
Group9 == "g9"
\* The ids of the rows of models.Collection and models.Paper.
Collection == {Group1}
Paper == {1, 2}
\* The rows of models.User, by email.
User ==
    (User1 :> [id |-> "id1", email |-> User1, username |-> "ann",
               first_name |-> "Ann", last_name |-> "A"])
        @@ (User2 :> [id |-> "id2", email |-> User2, username |-> "bob",
                      first_name |-> "Bob", last_name |-> "B"])

\* A Comment row without an owning user, on the second paper: the row an
\* anonymous visitor's comment leaves (user_id is nullable).
LegacyComment ==
    [id |-> 1, highlighted_text |-> None, text |-> "t", paper_id |-> 2,
     is_general |-> TRUE, shared_with |-> "public", user_id |-> None,
     position |-> None, collection_id |-> None]

\* The visibility objects a request body carries: the four types, a group
\* that does not exist, a group without id, and an unknown type.
VisibilityObjs ==
    {[type |-> "public"], [type |-> "private"], [type |-> "anonymous"],
     [type |-> "group", id |-> Group1], [type |-> "group", id |-> Group9],
     [type |-> "group"], [type |-> "everyone"]}

\* A JSON body is a function from the keys it has to their values.
Key(key, values) == {EmptyFilters} \cup {key :> v : v \in values}

\* The bodies of POST new_comment: every combination of highlighted_text,
\* position and isGeneral with a public visibility, and every visibility
\* with a complete anchored comment and with a general one.
NewCommentBodies ==
    LET anchors == {h @@ p : h \in Key("highlighted_text", {"h"}),
                             p \in Key("position", {"pos"})}
        complete == ("highlighted_text" :> "h") @@ ("position" :> "pos")
    IN {("text" :> "t") @@ ("visibility" :> [type |-> "public"]) @@ a @@ g :
            a \in anchors, g \in Key("isGeneral", BOOLEAN)}
       \cup {("text" :> "t") @@ ("visibility" :> v) @@ a :
                v \in VisibilityObjs,
                a \in {complete, "isGeneral" :> TRUE}}
       \cup {"text" :> "t"}

\* The bodies of PATCH comment.
EditCommentBodies ==
    {("text" :> "t") @@ ("visibility" :> v) : v \in VisibilityObjs}
        \cup {"text" :> "t"}

\* get_jwt_identity(): the email of the caller, None without a token.
Identities == {None, User1, User2}

(***************************************************************************)
(* src/routes/comments.py: the handlers.                                   *)
(***************************************************************************)
\* visibilityObj (lines 70-77): whether the object passes (a ValueError
\* makes parse_args end the request with a 400).
visibilityObj(obj) ==
    LET vis_type == dict_get(obj, "type", None)
    IN /\ vis_type \in {"public", "private", "anonymous", "group"}
       /\ ~(vis_type = "group" /\ ~Truthy(dict_get(obj, "id", None)))

\* parse_args of a parser whose only required argument is visibility.
parsed_ok(json) == "visibility" \in DOMAIN json /\ visibilityObj(json.visibility)

\* user_utils.get_user_by_email: the User row of the caller.
get_user_by_email(identity) == User[identity]

\* NewCommentResource.post (lines 110-161): the status and, on success,
\* the Comment row that is added and committed.
post(paper_id, json, identity) ==
    IF identity = None
    THEN Abort(401)                                         \* jwt_required
    ELSE IF ~parsed_ok(json)
    THEN Abort(400)                                         \* line 129
    ELSE LET is_general == "isGeneral" \in DOMAIN json      \* line 130
             visibility == json.visibility
         IN IF ~is_general /\ ("position" \notin DOMAIN json
                                \/ "highlighted_text" \notin DOMAIN json)
            THEN Abort(401)                                 \* line 132
            ELSE IF visibility.type = "group" /\ visibility.id \notin Collection
            THEN Abort(404)                                 \* line 146
            ELSE IF paper_id \notin Paper
            THEN Abort(404)                                 \* line 148
            ELSE [status |-> 200,
                  comment |->
                      [id               |-> next_comment_id,
                       highlighted_text |-> IF is_general THEN None
                                            ELSE json.highlighted_text,
                       text             |-> dict_get(json, "text", None),
                       paper_id         |-> paper_id,
                       is_general       |-> is_general,
                       shared_with      |-> visibility.type,
                       user_id          |-> get_user_by_email(identity).id,
                       position         |-> IF is_general THEN None
                                            ELSE json.position,
                       collection_id    |-> IF visibility.type = "group"
                                            THEN visibility.id
                                            ELSE None]]

\* The User row a Comment row belongs to (comment.user), for a row that
\* has one.
comment_user(comment) ==
    CHOOSE u \in {User[e] : e \in DOMAIN User} : u.id = comment.user_id

\* CommentResource._get_comment (lines 167-173): the status it ends the
\* request with, 200 when it returns the comment.
get_comment(comment_id, identity) ==
    IF identity = None
    THEN Abort(401)                                         \* jwt_required
    ELSE IF comment_id \notin DOMAIN comment_table
    THEN Abort(404)
    ELSE IF comment_table[comment_id].user_id = None
    THEN Raise("AttributeError")                   \* None.email, line 171
    ELSE IF comment_user(comment_table[comment_id]).email # identity
    THEN Abort(403)
    ELSE [status |-> 200, comment |-> comment_table[comment_id]]

\* CommentResource.patch (lines 175-188)
patch(comment_id, json, identity) ==
    LET found == get_comment(comment_id, identity)
    IN IF found.status # 200
       THEN found
       ELSE IF ~parsed_ok(json)
       THEN Abort(400)                                      \* line 182
       ELSE [status |-> 200,
             comment |->
                 [found.comment EXCEPT
                      !.text = dict_get(json, "text", None),
                      !.shared_with = json.visibility.type,
                      !.collection_id = IF json.visibility.type = "group"
                                        THEN json.visibility.id
                                        ELSE None]]

\* paper_query_utils.PUBLIC_TYPES
PUBLIC_TYPES == {"public", "anonymous"}

\* The rows of a set of Comment rows as query.all() lists them, by id.
RECURSIVE query_all(_)
query_all(rows) ==
    IF rows = {}
    THEN <<>>
    ELSE LET first == CHOOSE c \in rows : \A d \in rows : c.id <= d.id
         IN <<first>> \o query_all(rows \ {first})

\* CommentsResource.get that leaves the ownership condition out for a
\* signed-in caller: every comment of the paper is listed.
get_every(paper_id, group_id, identity) ==
    IF paper_id \notin Paper
    THEN Abort(404)
    ELSE LET of_paper == {comment_table[i] : i \in DOMAIN comment_table}
             query == {c \in of_paper : c.paper_id = paper_id}
         IN [status |-> 200,
             comments |->
                 query_all(IF Truthy(group_id)
                     THEN {c \in query : c.collection_id = group_id}
                     ELSE IF identity # None
                     THEN query
                     ELSE {c \in query : c.shared_with \in PUBLIC_TYPES})]

\* CommentsResource.get (lines 80-100)
get(paper_id, group_id, identity) ==
    IF paper_id \notin Paper
    THEN Abort(404)                                         \* line 89
    ELSE LET of_paper == {comment_table[i] : i \in DOMAIN comment_table}
             query == {c \in of_paper : c.paper_id = paper_id}
         IN [status |-> 200,
             comments |->
                 query_all(IF Truthy(group_id)
                     THEN {c \in query : c.collection_id = group_id}
                     ELSE IF identity # None
                     THEN {c \in query :
                              \/ c.shared_with \in PUBLIC_TYPES
                              \/ c.user_id = get_user_by_email(identity).id}
                     ELSE {c \in query : c.shared_with \in PUBLIC_TYPES})]

(***************************************************************************)
(* src/routes/comments.py: the response fields (comment_fields).           *)
(***************************************************************************)
\* A boolean as the JSON body carries it.
json_bool(value) == IF value THEN "true" ELSE "false"

\* anonymize_user that hides the author of no comment that has one.
anonymize_user_never(comment, field) ==
    IF comment.user_id = None THEN "" ELSE comment_user(comment)[field]

\* anonymize_user (lines 26-30)
anonymize_user(comment, field) ==
    IF comment.shared_with = "anonymous" \/ comment.user_id = None
    THEN ""
    ELSE comment_user(comment)[field]

\* can_edit (lines 33-37) under fields.Boolean: false without a token,
\* null for a comment without a user (comment.user is None and the field
\* falls back to its default), else whether the caller's email is the
\* owner's.
can_edit(comment, current_user) ==
    IF ~Truthy(current_user)
    THEN "false"
    ELSE IF comment.user_id = None
    THEN "null"
    ELSE json_bool(comment_user(comment).email = current_user)

\* marshal(comment, comment_fields) in a request of the caller.  The rows
\* of the model carry no creation date and no replies.
marshal_comment(comment, current_user) ==
    [id               |-> comment.id,
     text             |-> comment.text,
     highlighted_text |-> comment.highlighted_text,
     position         |-> comment.position,
     username         |-> anonymize_user(comment, "username"),
     first_name       |-> anonymize_user(comment, "first_name"),
     last_name        |-> anonymize_user(comment, "last_name"),
     canEdit          |-> can_edit(comment, current_user),
     replies          |-> <<>>,
     visibility       |-> [type |-> comment.shared_with,
                           id   |-> comment.collection_id],
     isGeneral        |-> json_bool(comment.is_general)]

\* marshal_with(comment_fields, envelope): the body of a returned comment
\* or list of comments; an exception or abort passes through.
marshal_with_comment(returned, current_user) ==
    IF returned.status # 200
    THEN [message |-> returned.error]
    ELSE IF "comments" \in DOMAIN returned
    THEN [comments |-> [i \in 1..Len(returned.comments) |->
                           marshal_comment(returned.comments[i], current_user)]]
    ELSE [comment |-> marshal_comment(returned.comment, current_user)]

\* emit_update_to_paper_subscribers (lines 103-107): the message sent to
\* the paper's room.
emit_update_to_paper_subscribers(paper_id, type, comment, current_user) ==
    <<[event |-> "comment", room |-> paper_id, type |-> type,
       data |-> marshal_comment(comment, current_user)]>>

(***************************************************************************)
(* The state machine.                                                      *)
(***************************************************************************)
NoRequest == [served |-> FALSE]
\* No Paper row, and no run of extract_paper_metadata.
NoPapers == EmptyFilters
NoRun == [pc |-> "idle"]
NoResponse == [status |-> 0]

Init ==
    /\ db_papers \in Stores
    /\ \E lib \in Libraries :
           db_users = (User1 :> [_id |-> 1, library |-> lib, groups |-> {Group1}])
                          @@ (User2 :> [_id |-> 2, library |-> {2}, groups |-> {}])
    /\ \E gp \in GroupPaperSets :
           db_groups = [g \in {Group1} |-> [papers |-> gp, users |-> {1}]]
    /\ db_comments = Comments
    /\ pc = "idle"
    /\ request = NoRequest
    /\ response = NoResponse
    /\ marshalled = NoResponse
    /\ comment_table = EmptyFilters
    /\ next_comment_id = 1
    /\ emitted = <<>>
    /\ paper_table = NoPapers
    /\ cache = EmptyFilters
    /\ run = NoRun

\* A listing request is served: the arguments are parsed, get_papers runs
\* to its return or to an uncaught exception, and marshal_with shapes what
\* it returned.
GetPapers(raw, outage, current_user, library) ==
    LET parsed == parse_args(raw)
        returned == IF parsed.status = 400
                    THEN parsed
                    ELSE get_papers_during(outage, parsed.args, current_user,
                                           library, PageSize, Now)
    IN /\ pc = "idle"
       /\ pc' = "responded"
       /\ request' = [served |-> TRUE, raw |-> raw, outage |-> outage,
                      args |-> IF parsed.status = 400 THEN raw ELSE parsed.args,
                      current_user |-> current_user, library |-> library,
                      page_size |-> PageSize, now |-> Now]
       /\ response' = returned
       /\ marshalled' = marshal_with(returned)
       /\ UNCHANGED <<listing_vars, comment_vars, emitted, metadata_vars>>

\* The response is handed to the caller and the request is discarded.
Respond ==
    /\ pc = "responded"
    /\ pc' = "idle"
    /\ request' = NoRequest
    /\ response' = NoResponse
    /\ marshalled' = NoResponse
    /\ emitted' = <<>>
    /\ UNCHANGED <<listing_vars, comment_vars, metadata_vars>>

\* Any listing request, from any caller.
Listing ==
    /\ pc = "idle"
    /\ \E r \in Requests, c \in Callers : GetPapers(r[1], r[2], c[1], c[2])

Next == Listing \/ Respond

Spec == Init /\ [][Next]_vars

(***************************************************************************)
(* The state machine of the comment handlers.                              *)
(***************************************************************************)
InitComments ==
    /\ db_papers = <<>>
    /\ db_users = (User1 :> [_id |-> 1, library |-> {}, groups |-> {Group1}])
                      @@ (User2 :> [_id |-> 2, library |-> {}, groups |-> {}])
    /\ db_groups = [g \in {Group1} |-> [papers |-> {}, users |-> {1}]]
    /\ db_comments = {}
    /\ pc = "idle"
    /\ request = NoRequest
    /\ response = NoResponse
    /\ marshalled = NoResponse
    /\ \/ comment_table = EmptyFilters /\ next_comment_id = 1
       \/ comment_table = (1 :> LegacyComment) /\ next_comment_id = 2
    /\ emitted = <<>>
    /\ paper_table = NoPapers
    /\ cache = EmptyFilters
    /\ run = NoRun

\* POST /<paper_id>/new_comment: on success the row is added and committed
\* and the new comment is emitted to the paper's subscribers.
NewComment(paper_id, json, identity) ==
    LET outcome == post(paper_id, json, identity)
    IN /\ pc = "idle"
       /\ next_comment_id <= MaxComments
       /\ pc' = "responded"
       /\ request' = [served |-> TRUE, method |-> "POST", paper_id |-> paper_id,
                      json |-> json, identity |-> identity]
       /\ response' = outcome
       /\ marshalled' = marshal_with_comment(outcome, identity)
       /\ comment_table' = IF outcome.status = 200
                           THEN (next_comment_id :> outcome.comment) @@ comment_table
                           ELSE comment_table
       /\ next_comment_id' = IF outcome.status = 200
                             THEN next_comment_id + 1
                             ELSE next_comment_id
       /\ emitted' = IF outcome.status = 200
                     THEN emit_update_to_paper_subscribers(
                              paper_id, "new", outcome.comment, identity)
                     ELSE <<>>
       /\ UNCHANGED <<listing_vars, metadata_vars>>

\* PATCH /comment/<comment_id>: on success the changed row is committed and
\* emitted to the paper's subscribers.
PatchComment(comment_id, json, identity) ==
    LET outcome == patch(comment_id, json, identity)
    IN /\ pc = "idle"
       /\ pc' = "responded"
       /\ request' = [served |-> TRUE, method |-> "PATCH",
                      comment_id |-> comment_id, json |-> json,
                      identity |-> identity]
       /\ response' = outcome
       /\ marshalled' = marshal_with_comment(outcome, identity)
       /\ comment_table' = IF outcome.status = 200
                           THEN [comment_table EXCEPT ![comment_id] = outcome.comment]
                           ELSE comment_table
       /\ emitted' = IF outcome.status = 200
                     THEN emit_update_to_paper_subscribers(
                              outcome.comment.paper_id, "update",
                              outcome.comment, identity)
                     ELSE <<>>
       /\ UNCHANGED <<listing_vars, metadata_vars, next_comment_id>>

\* DELETE /comment/<comment_id> (lines 190-199): on success the row is
\* deleted and the deletion is emitted to the paper's subscribers.
DeleteComment(comment_id, identity) ==
    LET outcome == get_comment(comment_id, identity)
    IN /\ pc = "idle"
       /\ pc' = "responded"
       /\ request' = [served |-> TRUE, method |-> "DELETE",
                      comment_id |-> comment_id, identity |-> identity]
       /\ response' = [status |-> outcome.status]
       /\ marshalled' = IF outcome.status = 200
                        THEN [message |-> "success"]
                        ELSE [message |-> outcome.error]
       /\ comment_table' = IF outcome.status = 200
                           THEN [i \in DOMAIN comment_table \ {comment_id} |->
                                    comment_table[i]]
                           ELSE comment_table
       /\ emitted' = IF outcome.status = 200
                     THEN <<[event |-> "comment", room |-> outcome.comment.paper_id,
                             type |-> "delete", id |-> comment_id]>>
                     ELSE <<>>
       /\ UNCHANGED <<listing_vars, metadata_vars, next_comment_id>>

\* GET /<paper_id>/comments: the comments the caller may see are listed.
ListComments(paper_id, group_id, identity) ==
    LET outcome == get(paper_id, group_id, identity)
    IN /\ pc = "idle"
       /\ pc' = "responded"
       /\ request' = [served |-> TRUE, method |-> "GET", paper_id |-> paper_id,
                      group |-> group_id, identity |-> identity]
       /\ response' = outcome
       /\ marshalled' = marshal_with_comment(outcome, identity)
       /\ emitted' = <<>>
       /\ UNCHANGED <<listing_vars, metadata_vars, comment_vars>>

\* <<paper_id, body, caller>> of the POST requests: every body from each
\* user for the stored paper, and a complete body without a token and for
\* a paper that does not exist.
NewCommentRequests ==
    ({1} \X NewCommentBodies \X {User1, User2})
        \cup ({1, 9} \X {("text" :> "t") @@ ("visibility" :> [type |-> "public"])
                             @@ ("isGeneral" :> TRUE)}
                    \X Identities)

Posting ==
    /\ pc = "idle"
    /\ \E r \in NewCommentRequests : NewComment(r[1], r[2], r[3])

Patching ==
    /\ pc = "idle"
    /\ \E comment_id \in 1..(MaxComments + 1), json \in EditCommentBodies,
          identity \in Identities :
           PatchComment(comment_id, json, identity)

Deleting ==
    /\ pc = "idle"
    /\ \E comment_id \in 1..(MaxComments + 1), identity \in Identities :
           DeleteComment(comment_id, identity)

\* The listing of a stored paper or one that does not exist, with or
\* without a group parameter, by any caller.
Getting ==
    /\ pc = "idle"
    /\ \E paper_id \in Paper \cup {9}, group_id \in {None, Group1, Group9},
          identity \in Identities :
           ListComments(paper_id, group_id, identity)

NextComments == Posting \/ Patching \/ Deleting \/ Getting \/ Respond

SpecComments == InitComments /\ [][NextComments]_vars

TypeOK ==
    /\ pc \in {"idle", "responded"}
    /\ pc = "idle" => request = NoRequest /\ response = NoResponse
    /\ pc = "responded" => response.status \in {200, 400, 500}

(***************************************************************************)
(* What the listing is specified to return, stated on the store and the    *)
(* request alone.                                                          *)
(***************************************************************************)
\* Any request was answered.
Answered == pc = "responded"
\* A request the parser accepted was served with every collection up.
Served == Answered /\ response.status # 400 /\ request.outage = None
Ok == Served /\ response.status = 200
Args == request.args

Ids(papers) == [i \in 1..Len(papers) |-> papers[i]._id]

\* The window of each age, in days.
WindowDays ==
    ("day" :> 1) @@ ("3days" :> 3) @@ ("week" :> 7) @@ ("month" :> 30)
        @@ ("year" :> 365)

\* t is one of the elements of the ';'-separated list s.
IsListElement(t, s) ==
    /\ \A k \in 1..Len(t) : t[k] # ";"
    /\ \E i \in 1..(Len(s) + 1) :
           /\ i + Len(t) - 1 <= Len(s)
           /\ SubSeq(s, i, i + Len(t) - 1) = t
           /\ i = 1 \/ s[i - 1] = ";"
           /\ i + Len(t) - 1 = Len(s) \/ s[i + Len(t)] = ";"

HasListedTag(p) == \E t \in p.tags : IsListElement(t.term, Args.categories)

AuthorOk(p) == ~Truthy(Args.author) \/ \E a \in p.authors : a.name = Args.author
AgeOk(p) == Args.age = "all" \/ p.time_published > request.now - WindowDays[Args.age]
CategoriesOk(p) == ~TruthySeq(Args.categories) \/ HasListedTag(p)
InLibrary(p) == request.current_user # None
                /\ p._id \in db_users[request.current_user].library
InGroup(p) == p._id \in db_groups[Args.group].papers
ScopeOk(p) == IF Truthy(Args.group) THEN InGroup(p) ELSE request.library => InLibrary(p)

\* The page of a sequence that the request's page_num selects.
PageOf(s) ==
    SubSeq(s, request.page_size * (Args.page_num - 1) + 1,
           Min(Len(s), request.page_size * Args.page_num))

StoreIds(Keep(_)) == Ids(SelectSeq(db_papers, Keep))

Returned == {response.papers[i] : i \in 1..Len(response.papers)}

(***************************************************************************)
(* C4: for an age other than "all", every returned paper was published at  *)
(* or after the request time minus the age's window (1, 3, 7, 30, 365      *)
(* days); for age "all" no time constraint is applied: the page is cut     *)
(* from the papers that pass the other filters, whatever their age.        *)
(***************************************************************************)
C4_AgeWindow ==
    Ok =>
        /\ Args.age # "all" =>
               \A p \in Returned :
                   p.time_published >= request.now - WindowDays[Args.age]
        /\ Args.age = "all" =>
               Ids(response.papers)
                   = PageOf(StoreIds(LAMBDA p :
                                AuthorOk(p) /\ CategoriesOk(p) /\ ScopeOk(p)))

\* A week's listing that returns a paper and leaves out an older one that
\* passes the other filters.
C4_Witness ==
    /\ Ok
    /\ Args.age = "week"
    /\ Returned # {}
    /\ \E i \in 1..Len(db_papers) :
           /\ AuthorOk(db_papers[i]) /\ CategoriesOk(db_papers[i])
           /\ ScopeOk(db_papers[i])
           /\ db_papers[i].time_published < request.now - 7

(***************************************************************************)
(* C5: with a non-empty categories argument every returned paper has a tag *)
(* that is an element of the ';'-separated list, and the category filter   *)
(* excludes no paper that has such a tag: the page is cut from the papers  *)
(* that have a listed tag and pass the other filters.                      *)
(***************************************************************************)
C5_Categories ==
    Ok /\ TruthySeq(Args.categories) =>
        /\ \A p \in Returned : HasListedTag(p)
        /\ Ids(response.papers)
               = PageOf(StoreIds(LAMBDA p :
                            AuthorOk(p) /\ AgeOk(p) /\ ScopeOk(p) /\ HasListedTag(p)))

\* categories = "a;b" returns a paper tagged "b" and not "a", and the store
\* holds a paper with neither tag that passes the other filters.
C5_Witness ==
    /\ Ok
    /\ Args.categories = <<"a", ";", "b">>
    /\ \E p \in Returned :
           [term |-> <<"b">>] \in p.tags /\ [term |-> <<"a">>] \notin p.tags
    /\ \E i \in 1..Len(db_papers) :
           /\ ~HasListedTag(db_papers[i])
           /\ AuthorOk(db_papers[i]) /\ AgeOk(db_papers[i]) /\ ScopeOk(db_papers[i])

(***************************************************************************)
(* C9: with a group id every returned paper is in the group's paper set,   *)
(* and with library=true as well the group restriction replaces the        *)
(* library restriction: the page is cut from the group's papers that pass  *)
(* the author, age and category filters, in the library or not.            *)
(***************************************************************************)
C9_GroupScope ==
    Ok /\ Truthy(Args.group) =>
        /\ \A p \in Returned : InGroup(p)
        /\ Ids(response.papers)
               = PageOf(StoreIds(LAMBDA p :
                            AuthorOk(p) /\ AgeOk(p) /\ CategoriesOk(p) /\ InGroup(p)))

\* A library listing with a group id that returns a paper of the group
\* which is not in the caller's library.
C9_Witness ==
    /\ Ok
    /\ Truthy(Args.group)
    /\ request.library
    /\ \E p \in Returned : InGroup(p) /\ ~InLibrary(p)

(***************************************************************************)
(* C10: saved_in_library of a returned paper is true exactly when the      *)
(* paper's id is in the requesting user's library, and false for every     *)
(* paper when the caller is anonymous.                                     *)
(***************************************************************************)
C10_SavedInLibrary ==
    Ok => \A p \in Returned : p.saved_in_library = InLibrary(p)

\* A listing for a signed-in caller with a saved and an unsaved paper.
C10_Witness ==
    /\ Ok
    /\ request.current_user = User1
    /\ \E p \in Returned : p.saved_in_library
    /\ \E p \in Returned : ~p.saved_in_library

(***************************************************************************)
(* Sorting and paging, as the listing is specified to do them.             *)
(***************************************************************************)
\* The document field the request's sort key stands for (date when absent).
SortField == SORT_DICT[IF Args.sort = None THEN "date" ELSE Args.sort]

\* The value a paper is ranked by: the text relevance for "score".
SortKey(p) == IF SortField = "score" THEN textScore(Args.q, p) ELSE p[SortField]

TextOk(p) == ~Truthy(Args.q) \/ textScore(Args.q, p) > 0
AllFiltersOk(p) ==
    AuthorOk(p) /\ AgeOk(p) /\ CategoriesOk(p) /\ ScopeOk(p) /\ TextOk(p)

\* What get_papers returns for page j of the request being served.
PageResponse(j) ==
    get_papers([Args EXCEPT !.page_num = j], request.current_user,
               request.library, request.page_size, request.now)

RECURSIVE PagesUpTo(_)
PagesUpTo(k) ==
    IF k = 0 THEN <<>> ELSE PagesUpTo(k - 1) \o PageResponse(k).papers

(***************************************************************************)
(* C1: the concatenation of pages 1..k of one request over an unchanged    *)
(* store holds no paper id twice and is in descending order of the chosen  *)
(* sort key, across the page boundaries too.                               *)
(***************************************************************************)
C1_Pagination ==
    Served /\ (\A j \in 1..Args.page_num : PageResponse(j).status = 200) =>
        LET all == PagesUpTo(Args.page_num)
        IN /\ \A i, j \in 1..Len(all) : i # j => all[i]._id # all[j]._id
           /\ \A i, j \in 1..Len(all) : i < j => SortKey(all[i]) >= SortKey(all[j])

(***************************************************************************)
(* C2: every listing request is answered with a count; the count differs   *)
(* from -1 exactly on page 1, where it is the number of stored papers that *)
(* match the request's filter, skip and limit ignored (zero matches and    *)
(* free-text requests included).                                           *)
(***************************************************************************)
C2_Count ==
    Served =>
        /\ response.status = 200
        /\ response.count # 0 - 1 <=> Args.page_num = 1
        /\ Args.page_num = 1 =>
               response.count = Len(StoreIds(LAMBDA p : AllFiltersOk(p)))

(***************************************************************************)
(* C3: a library listing returns no paper whose id is not in the           *)
(* requesting user's library, whatever the other arguments are.            *)
(***************************************************************************)
C3_LibraryOnly ==
    Ok /\ request.library => \A p \in Returned : InLibrary(p)

(***************************************************************************)
(* C6: without a free-text query the returned papers are in descending     *)
(* order of the field of the sort key (tweets, date, bookmarks; date when  *)
(* absent), papers with equal keys in ascending order of id.               *)
(***************************************************************************)
C6_SortOrder ==
    Ok /\ ~Truthy(Args.q) /\ Args.sort # "score" =>
        \A i, j \in 1..Len(response.papers) :
            i < j =>
                LET a == response.papers[i]
                    b == response.papers[j]
                IN \/ SortKey(a) > SortKey(b)
                   \/ SortKey(a) = SortKey(b) /\ a._id < b._id

(***************************************************************************)
(* C7: a request with a free-text q is answered in the {papers, count}     *)
(* shape with papers that match q, in descending order of the text         *)
(* relevance score, whatever sort key was requested.                       *)
(***************************************************************************)
C7_TextRelevance ==
    Served /\ Truthy(Args.q) =>
        /\ response.status = 200
        /\ {"papers", "count"} \subseteq DOMAIN response
        /\ \A p \in Returned : textScore(Args.q, p) > 0
        /\ \A i, j \in 1..Len(response.papers) :
               i < j => textScore(Args.q, response.papers[i])
                            >= textScore(Args.q, response.papers[j])

(***************************************************************************)
(* C8: with a free-text q the page and the other filters still apply: at   *)
(* most page_size papers are returned, as many as the page of the matches  *)
(* holds, and each passes the age, author, category and id-scope filters.  *)
(***************************************************************************)
C8_TextPaging ==
    Served /\ Truthy(Args.q) =>
        /\ response.status = 200
        /\ Len(response.papers) <= request.page_size
        /\ Len(response.papers)
               = Len(PageOf(StoreIds(LAMBDA p : AllFiltersOk(p))))
        /\ \A p \in Returned :
               AuthorOk(p) /\ AgeOk(p) /\ CategoriesOk(p) /\ ScopeOk(p)

(***************************************************************************)
(* The response body, as the listing is specified to shape it.             *)
(***************************************************************************)
Shaped == {marshalled.papers[i] : i \in 1..Len(marshalled.papers)}

\* The groups of the requesting user that hold the paper.
MemberGroups(paper_id) ==
    IF request.current_user = None
    THEN {}
    ELSE {g \in db_users[request.current_user].groups :
             paper_id \in db_groups[g].papers}

(***************************************************************************)
(* C11: the groups field of every paper of a listing response is the set   *)
(* of the requesting user's groups whose paper set holds the paper, and    *)
(* the empty list for an anonymous caller.                                 *)
(***************************************************************************)
C11_Groups ==
    Ok => \A p \in Shaped : p.groups # None /\ p.groups = MemberGroups(p._id)

(***************************************************************************)
(* C12: every paper include_stats returns has a comments_count, the number *)
(* of comments on the paper whose visibility type is public or anonymous:  *)
(* 0, not a missing value, for a paper with no such comment.               *)
(***************************************************************************)
C12_CommentsCount ==
    Ok =>
        \A p \in Returned :
            /\ "comments_count" \in DOMAIN p
            /\ p.comments_count
                   = Cardinality({c \in db_comments :
                                     /\ c.pid = p._id
                                     /\ c.visibility.type \in {"public", "anonymous"}})

\* A listing with a paper that has two counted comments and a private one,
\* and a paper whose only comment is a group comment and counts 0.
C12_Witness ==
    /\ Ok
    /\ \E p \in Returned :
           /\ p.comments_count = 2
           /\ \E c \in db_comments : c.pid = p._id /\ c.visibility.type = "private"
    /\ \E p \in Returned :
           /\ p.comments_count = 0
           /\ \E c \in db_comments : c.pid = p._id /\ c.visibility.type = "group"

(***************************************************************************)
(* C13: the shaped twtr_links of a paper has one entry per tweet reference *)
(* of the paper, in the same order; the entry's link is                    *)
(* https://twitter.com/{handle}/status/{tweet_id} and its score is         *)
(* likes + 2*retweets + 4*replies, replies counting 0 when the tweet has   *)
(* no replies value.                                                       *)
(***************************************************************************)
C13_TwitterLinks ==
    Ok =>
        \A n \in 1..Len(response.papers) :
            "twtr_links" \in DOMAIN response.papers[n] =>
                LET tweets == response.papers[n].twtr_links
                    links == marshalled.papers[n].twtr_links
                IN /\ Len(links) = Len(tweets)
                   /\ \A i \in 1..Len(tweets) :
                          /\ links[i].link
                                 = <<"https://twitter.com/", tweets[i].tname,
                                     "/status/", tweets[i].tid>>
                          /\ links[i].score
                                 = tweets[i].likes + 2 * tweets[i].rt
                                       + (IF "replies" \in DOMAIN tweets[i]
                                          THEN 4 * tweets[i].replies
                                          ELSE 0)

\* A shaped paper with two tweets by different handles: the first has no
\* replies value and scores 14, the second has one reply and scores 18.
C13_Witness ==
    /\ Ok
    /\ \E n \in 1..Len(response.papers) :
           /\ "twtr_links" \in DOMAIN response.papers[n]
           /\ Len(marshalled.papers[n].twtr_links) = 2
           /\ "replies" \notin DOMAIN response.papers[n].twtr_links[1]
           /\ marshalled.papers[n].twtr_links[1].score = 14
           /\ marshalled.papers[n].twtr_links[2].score = 18
           /\ marshalled.papers[n].twtr_links[1].link
                  # marshalled.papers[n].twtr_links[2].link

(***************************************************************************)
(* C14: a listing request whose sort is not one of tweets, date, score,    *)
(* bookmarks, or whose age is not one of day, 3days, week, month, year,    *)
(* all, is rejected with a validation error and returns no papers; a       *)
(* request without a sort is accepted and its papers are ordered by date,  *)
(* most recent first.                                                      *)
(***************************************************************************)
SortChoices == {"tweets", "date", "score", "bookmarks"}
AgeChoices == {"day", "3days", "week", "month", "year", "all"}

Rejected == response.status = 400 /\ "papers" \notin DOMAIN response

C14_Validation ==
    Answered =>
        LET given == request.raw
            valid == /\ given.sort \in SortChoices \cup {None}
                     /\ given.age \in AgeChoices \cup {None}
        IN /\ ~valid => Rejected
           /\ valid /\ given.sort = None =>
                  /\ ~Rejected
                  /\ response.status = 200 =>
                         \A i, j \in 1..Len(response.papers) :
                             i < j => response.papers[i].time_published
                                          >= response.papers[j].time_published

(***************************************************************************)
(* C15: a categories value with no non-empty tag between its ';' (the      *)
(* empty string, ";", ";;") is no category filter: the request returns     *)
(* what the same request without categories returns.                       *)
(***************************************************************************)
NoTagIn(categories) ==
    categories # NoneSeq /\ \A k \in 1..Len(categories) : categories[k] = ";"

C15_EmptyCategories ==
    Served /\ NoTagIn(Args.categories) =>
        response = get_papers([Args EXCEPT !.categories = NoneSeq],
                              request.current_user, request.library,
                              request.page_size, request.now)

(***************************************************************************)
(* C16: a listing request returns a response in which every paper carries  *)
(* the three enrichment fields (comments_count, saved_in_library, groups), *)
(* or it fails as a whole: when the comment-count, the library or the      *)
(* group-membership lookup fails, no papers are returned.                  *)
(***************************************************************************)
EnrichmentFields == {"comments_count", "saved_in_library", "groups"}

\* A lookup of the enrichment was made and its collection was unreachable.
LookupFailed ==
    \/ request.outage \in {"db_comments", "db_users"}
    \/ request.outage = "db_groups" /\ request.current_user # None

C16_AllOrNothing ==
    Answered /\ response.status # 400 =>
        /\ LookupFailed => "papers" \notin DOMAIN response
        /\ "papers" \in DOMAIN response =>
               \A p \in Returned : EnrichmentFields \subseteq DOMAIN p

(***************************************************************************)
(* C17: include_stats returns the papers it was given, in the same order:  *)
(* it adds or overwrites the enrichment fields only and neither reorders,  *)
(* drops, duplicates nor changes any other field of a paper.               *)
(***************************************************************************)
\* The documents get_papers hands to include_stats: the page of the stored
\* papers that pass the request's filters.
Selected == PageOf(SelectSeq(db_papers, AllFiltersOk))

C17_Frame ==
    Ok =>
        /\ Len(response.papers) = Len(Selected)
        /\ \A i \in 1..Len(Selected) :
               /\ \A k \in DOMAIN Selected[i] :
                      response.papers[i][k] = Selected[i][k]
               /\ DOMAIN response.papers[i] \ DOMAIN Selected[i]
                      \subseteq {"group", "comments_count", "saved_in_library"}

\* Two papers are returned and both enrichment fields differ between them.
C17_Witness ==
    /\ Ok
    /\ Len(response.papers) = 2
    /\ response.papers[1]._id # response.papers[2]._id
    /\ response.papers[1].comments_count # response.papers[2].comments_count
    /\ response.papers[1].saved_in_library # response.papers[2].saved_in_library

(***************************************************************************)
(* C18: include_stats is idempotent: applied for the same user to the list *)
(* it returned, it returns that list again, field for field.               *)
(***************************************************************************)
C18_Idempotent ==
    Ok => include_stats(response.papers, None, request.current_user)
              = response.papers

\* The returned list has a paper with counted comments that is saved in
\* the caller's library.
C18_Witness ==
    /\ Ok
    /\ \E p \in Returned : p.comments_count > 0 /\ p.saved_in_library

(***************************************************************************)
(* The comment handlers, as they are specified.                            *)
(***************************************************************************)
Stored == {comment_table[id] : id \in DOMAIN comment_table}

\* A POST new_comment request was answered.
Posted == pc = "responded" /\ request.method = "POST"

(***************************************************************************)
(* C19: after any sequence of comment creations and edits, every stored    *)
(* comment that is not general has both a position and a highlighted text  *)
(* and every general comment has neither; a create request for a comment   *)
(* that is not general (isGeneral false or absent) and lacks either one is *)
(* rejected, and an accepted request with isGeneral = false is stored as a *)
(* comment that is not general.                                            *)
(***************************************************************************)
C19_GeneralShape ==
    /\ \A c \in Stored :
           IF c.is_general
           THEN c.position = None /\ c.highlighted_text = None
           ELSE c.position # None /\ c.highlighted_text # None
    /\ Posted =>
           LET json == request.json
               not_general == "isGeneral" \notin DOMAIN json \/ ~json.isGeneral
               anchored == {"position", "highlighted_text"} \subseteq DOMAIN json
           IN /\ not_general /\ ~anchored => response.status # 200
              /\ not_general /\ response.status = 200 =>
                     ~response.comment.is_general

(***************************************************************************)
(* C20: after any sequence of comment creations and edits, every stored    *)
(* comment whose visibility type is group has the id of an existing group  *)
(* as its collection_id, and every other comment has no collection_id.     *)
(***************************************************************************)
C20_GroupVisibility ==
    \A c \in Stored :
        IF c.shared_with = "group"
        THEN c.collection_id \in Collection
        ELSE c.collection_id = None

(***************************************************************************)
(* C21: a comment is changed or deleted by its owner only: every PATCH or  *)
(* DELETE on a stored comment by a signed-in caller whose email is not the *)
(* email of the comment's owning user, a comment without owning user       *)
(* included, ends with a 403, leaves the Comment table as it was and emits *)
(* nothing to the subscribers.                                             *)
(***************************************************************************)
\* The caller is signed in and is not the owner of the stored comment.
NotOwner(comment_id, identity) ==
    /\ identity # None
    /\ comment_id \in DOMAIN comment_table
    /\ \/ comment_table[comment_id].user_id = None
       \/ comment_table[comment_id].user_id # User[identity].id

C21_OwnerOnly ==
    [][(/\ pc = "idle" /\ pc' = "responded"
        /\ request'.method \in {"PATCH", "DELETE"}
        /\ NotOwner(request'.comment_id, request'.identity))
       => (/\ response'.status = 403
           /\ comment_table' = comment_table
           /\ emitted' = <<>>)]_vars

(***************************************************************************)
(* C22: the comment listing of a paper returns no private comment to a     *)
(* caller who is not its owner.  Without a group parameter an anonymous    *)
(* caller gets exactly the paper's comments whose visibility type is       *)
(* public or anonymous and a signed-in caller gets exactly those and the   *)
(* comments the caller owns; with a group parameter every returned comment *)
(* is scoped to that group.                                                *)
(***************************************************************************)
\* A GET comments request was answered with a list.
Listed == pc = "responded" /\ request.method = "GET" /\ response.status = 200

ListedRows == {response.comments[i] : i \in 1..Len(response.comments)}

OwnedByCaller(c) ==
    request.identity # None /\ c.user_id = User[request.identity].id

ShapedComments ==
    (IF "comments" \in DOMAIN response
     THEN {<<response.comments[i], marshalled.comments[i]>> :
              i \in 1..Len(response.comments)}
     ELSE {})
    \cup (IF "comment" \in DOMAIN response
          THEN {<<response.comment, marshalled.comment>>}
          ELSE {})
    \cup {<<response.comment, emitted[i].data>> :
             i \in {j \in 1..Len(emitted) : "data" \in DOMAIN emitted[j]}}

Nameless(c) == c.shared_with = "anonymous" \/ c.user_id = None

C24_Anonymous ==
    pc = "responded" =>
        \A pair \in ShapedComments :
            Nameless(pair[1]) =>
                /\ pair[2].username = ""
                /\ pair[2].first_name = ""
                /\ pair[2].last_name = ""
                /\ pair[2].canEdit = "true" => OwnedByCaller(pair[1])

\* Another user lists a paper with an anonymous comment that has an owner:
\* it is shaped without names and cannot be edited.
C24_Witness ==
    /\ Listed
    /\ request.identity # None
    /\ \E pair \in ShapedComments :
           /\ pair[1].shared_with = "anonymous"
           /\ pair[1].user_id # None
           /\ ~OwnedByCaller(pair[1])
           /\ pair[2].username = "" /\ pair[2].canEdit = "false"

(***************************************************************************)
(* routes/metadata_utils.py: extract_paper_metadata.                       *)
(***************************************************************************)
\* The states of models.MetadataState that extract_paper_metadata assigns.
MetadataState == [fetching |-> "fetching", ready |-> "ready"]

\* What is stored behind each local_pdf url: two urls hold the same file.
Url == {"url1", "url2", "url3"}
requests_get(url) == IF url = "url2" THEN "pdf2" ELSE "pdf1"

\* What GROBID reads in the header of each file: the second has no title.
TeiHeader ==
    ("pdf1" :> [title |-> "T1", abstract |-> "A1", date |-> 100, doi |-> "D1",
                authors |-> {"Ada L"}])
        @@ ("pdf2" :> [title |-> "", abstract |-> "A2", date |-> 200,
                       doi |-> "D2", authors |-> {"Ada L", "Kurt G"}])

\* FileUploader.calc_hash: the digest of the content.
calc_hash(file_content) == <<"md5", file_content>>

\* The ways the call to GROBID ends: a TEI document, no GROBID_URL in the
\* environment, a 503 answer, a body that is not XML.
GrobidOutcomes == {"tei", "KeyError", "503", "ParseError"}

\* lines 72-118: <<success, metadata>>.
fetch_data_from_grobid(file_content, outcome) ==
    IF outcome # "tei"
    THEN <<FALSE, [title |-> "Untitled", authors |-> {}, abstract |-> "",
                   date |-> Now]>>
    ELSE LET header == TeiHeader[file_content]
         IN <<TRUE, [title |-> IF header.title = "" THEN None ELSE header.title,
                     authors |-> header.authors,
                     abstract |-> header.abstract,
                     date |-> header.date,
                     doi |-> header.doi,
                     table_of_contents |-> <<"toc", file_content>>]>>

\* cache.get(key): the stored value, or nothing; nothing and an empty dict
\* are both falsy at line 128.
cache_get(key) == IF key \in DOMAIN cache THEN cache[key] ELSE EmptyFilters
cache_set(key, value) ==
    [k \in DOMAIN cache \cup {key} |-> IF k = key THEN value ELSE cache[k]]
Falsy(metadata) == DOMAIN metadata = {}

\* A row of models.Paper as extract_paper_metadata finds it.
PaperRow(local_pdf) ==
    [local_pdf |-> local_pdf, metadata_state |-> MetadataState.ready,
     title |-> "uploaded", abstract |-> None, publication_date |-> 0,
     doi |-> None, table_of_contents |-> <<>>, authors |-> {},
     last_update_date |-> 0]

\* lines 138-157: the row after the metadata is applied and committed.
update_paper(paper, metadata) ==
    [paper EXCEPT
        !.title = dict_get(metadata, "title", paper.title),
        !.abstract = dict_get(metadata, "abstract", paper.abstract),
        !.publication_date = dict_get(metadata, "date", paper.publication_date),
        !.doi = dict_get(metadata, "doi", paper.doi),
        !.table_of_contents =
            dict_get(metadata, "table_of_contents", paper.table_of_contents),
        !.authors = paper.authors \cup metadata.authors,
        !.last_update_date = Now,
        !.metadata_state = MetadataState.ready]

\* marshal(paper, metadata_fields) of line 158.
metadata_fields(paper) ==
    [title |-> paper.title, abstract |-> paper.abstract,
     doi |-> paper.doi, table_of_contents |-> paper.table_of_contents,
     authors |-> paper.authors]

request_vars == <<pc, request, response, marshalled>>

InitMetadata ==
    /\ db_papers = <<>>
    /\ db_users = (User1 :> [_id |-> 1, library |-> {}, groups |-> {Group1}])
                      @@ (User2 :> [_id |-> 2, library |-> {}, groups |-> {}])
    /\ db_groups = [g \in {Group1} |-> [papers |-> {}, users |-> {1}]]
    /\ db_comments = {}
    /\ pc = "idle"
    /\ request = NoRequest
    /\ response = NoResponse
    /\ marshalled = NoResponse
    /\ comment_table = EmptyFilters
    /\ next_comment_id = 1
    /\ emitted = <<>>
    /\ \E urls \in [Paper -> Url] :
           paper_table = [p \in Paper |-> PaperRow(urls[p])]
    /\ cache = EmptyFilters
    /\ run = NoRun

\* lines 121-124: the paper is looked up, marked as fetching and committed;
\* an unknown id ends the run with a 404.
StartRun(paper_id) ==
    /\ run.pc \in {"idle", "returned", "raised"}
    /\ emitted' = <<>>
    /\ IF paper_id \notin DOMAIN paper_table
       THEN /\ run' = [pc |-> "raised", paper_id |-> paper_id,
                       error |-> "NotFound"]
            /\ UNCHANGED paper_table
       ELSE /\ paper_table' = [paper_table EXCEPT
                   ![paper_id].metadata_state = MetadataState.fetching]
            /\ run' = [pc |-> "download", paper_id |-> paper_id]
    /\ UNCHANGED <<listing_vars, comment_vars, request_vars, cache>>

\* lines 125-126: the file is downloaded and hashed; the download can fail.
Download(ok) ==
    /\ run.pc = "download"
    /\ run' = IF ok
              THEN LET file_content ==
                           requests_get(paper_table[run.paper_id].local_pdf)
                   IN [pc |-> "cache_get", paper_id |-> run.paper_id,
                       file_content |-> file_content,
                       file_hash |-> calc_hash(file_content)]
              ELSE [pc |-> "raised", paper_id |-> run.paper_id,
                    error |-> "ConnectionError"]
    /\ UNCHANGED <<listing_vars, comment_vars, request_vars, emitted,
                   paper_table, cache>>

\* lines 127-128: a cached result skips the call to GROBID.
CacheGet ==
    /\ run.pc = "cache_get"
    /\ LET metadata == cache_get(run.file_hash)
       IN run' = IF Falsy(metadata)
                 THEN [pc |-> "grobid", paper_id |-> run.paper_id,
                       file_content |-> run.file_content,
                       file_hash |-> run.file_hash]
                 ELSE [pc |-> "update", paper_id |-> run.paper_id,
                       file_hash |-> run.file_hash, called_grobid |-> FALSE,
                       metadata |-> metadata]
    /\ UNCHANGED <<listing_vars, comment_vars, request_vars, emitted,
                   paper_table, cache>>

\* lines 129-136: a result of GROBID is cached; a failure is emitted to the
\* paper's room and the function returns.
Grobid(outcome) ==
    /\ run.pc = "grobid"
    /\ LET fetched == fetch_data_from_grobid(run.file_content, outcome)
           success == fetched[1]
           metadata == fetched[2]
       IN IF success
          THEN /\ cache' = cache_set(run.file_hash, metadata)
               /\ run' = [pc |-> "update", paper_id |-> run.paper_id,
                          file_hash |-> run.file_hash, called_grobid |-> TRUE,
                          metadata |-> metadata]
               /\ UNCHANGED emitted
          ELSE /\ emitted' = <<[event |-> "paperInfo", room |-> run.paper_id,
                                success |-> FALSE]>>
               /\ run' = [pc |-> "returned", paper_id |-> run.paper_id,
                          file_hash |-> run.file_hash, called_grobid |-> TRUE,
                          success |-> FALSE]
               /\ UNCHANGED cache
    /\ UNCHANGED <<listing_vars, comment_vars, request_vars, paper_table>>

\* lines 138-158: the metadata is applied, the paper is marked as ready and
\* committed, and the result is emitted to the paper's room.
UpdatePaper ==
    /\ run.pc = "update"
    /\ LET paper == update_paper(paper_table[run.paper_id], run.metadata)
       IN /\ paper_table' = [paper_table EXCEPT ![run.paper_id] = paper]
          /\ emitted' = <<[event |-> "paperInfo", room |-> run.paper_id,
                           success |-> TRUE, data |-> metadata_fields(paper)]>>
    /\ run' = [pc |-> "returned", paper_id |-> run.paper_id,
               file_hash |-> run.file_hash,
               called_grobid |-> run.called_grobid, success |-> TRUE]
    /\ UNCHANGED <<listing_vars, comment_vars, request_vars, cache>>

\* line 133: an entry of the cache expires a day after it was set.
Expire(key) ==
    /\ key \in DOMAIN cache
    /\ cache' = [k \in DOMAIN cache \ {key} |-> cache[k]]
    /\ UNCHANGED <<listing_vars, comment_vars, request_vars, emitted,
                   paper_table, run>>

Starting == \E paper_id \in Paper \cup {9} : StartRun(paper_id)
Downloading == \E ok \in BOOLEAN : Download(ok)
CallingGrobid == \E outcome \in GrobidOutcomes : Grobid(outcome)
Expiring == \E key \in DOMAIN cache : Expire(key)

NextMetadata ==
    Starting \/ Downloading \/ CacheGet \/ CallingGrobid \/ UpdatePaper
        \/ Expiring

SpecMetadata == InitMetadata /\ [][NextMetadata]_vars

\* A run of extract_paper_metadata that marked its paper has returned.
Completed == run.pc = "returned"

\* C23: every run of extract_paper_metadata that marked its paper as
\* fetching and returned, also after a failed call to GROBID, has left the
\* paper ready; and the cache never holds the result of a failed call, so
\* that a run which finds its file in the cache did not follow a failure.
C23_EndsReady ==
    /\ Completed =>
           paper_table[run.paper_id].metadata_state = MetadataState.ready
    /\ \A key \in DOMAIN cache :
           \E file_content \in DOMAIN TeiHeader :
               /\ key = calc_hash(file_content)
               /\ cache[key] = fetch_data_from_grobid(file_content, "tei")[2]

====
